---- MODULE Spec2Model ----
(***************************************************************************)
(* HolodeckEnvironment (src/holodeck/environments.py): the controller side *)
(* of the per-tick handshake with the engine process, the command queue    *)
(* that is flushed at each tick, and the reset/step/tick/act lifecycle.    *)
(*                                                                         *)
(* The controller is one thread.  A call that ticks blocks in acquire()    *)
(* until the engine signals, so such a call is two or more steps of the    *)
(* model: the part up to and including release(), and one step per         *)
(* acquire() (which, inside reset(), runs on into the next flush/release). *)
(* Every other call is one step.  The engine is a second process.          *)
(*                                                                         *)
(* CommandCenter, HolodeckClient and the agent classes are not part of     *)
(* environments.py; they are modelled from the specification (sections 4.2 *)
(* and 5) and marked so in MODEL_MAP.json.                                 *)
(***************************************************************************)
EXTENDS Integers, Sequences, FiniteSets, TLC

----------------------------------------------------------------------------
(* Bounds of the model *)

\* calls the caller makes on one environment in one run
MaxCalls == 3
\* handshake failures (acquire timeouts) in one run
MaxFail == 1

----------------------------------------------------------------------------
(* Values *)

AgentNames == {"uav", "sphere"}

\* the agent types of the model: "uav" carries an RGB camera, "sphere" none
CameraAgents == {"uav"}

ActionValues == {"a", "b"}

\* the agent_definitions lists a constructor call may pass
AgentDefinitionLists ==
    {<<>>, <<"uav">>, <<"uav", "uav">>, <<"sphere", "uav">>}

\* the pre_start_steps a constructor call may pass: none, and the default
PreStartSteps == {0, 2}

\* the ticks_per_capture a caller may pass, as whether it is an int and its
\* value: 0, the default 1, 2, and a float between 2 and 3
CaptureRates ==
    {[int |-> TRUE, val |-> 0], [int |-> TRUE, val |-> 1], [int |-> TRUE, val |-> 2],
     [int |-> FALSE, val |-> 2]}

\* the densities a caller may pass to set_fog_density
FogDensities == {-1, 1, 2}

\* the day lengths a caller may pass to start_day_cycle
DayLengths == {0, 3}

\* the weather types a caller may pass to set_weather
WeatherTypes == {"Rain", "Snow"}

\* the hours a caller may pass to set_day_time: negative, in range, 24 and beyond
Hours == {-25, -1, 7, 24, 30}

None == "None"

NoAction == [val |-> None, seq |-> 0]

\* an absent value (Python's None) where a present one is <<v>>
NoValue == <<>>

\* a call that returns nothing
NoResult == [fn |-> None, state |-> [ref |-> FALSE, val |-> <<>>],
             reward |-> NoValue, terminal |-> NoValue]

\* a returned object that is the live state dict itself, not a copy
Reference == [ref |-> TRUE, val |-> <<>>]

\* ticks_per_capture of an agent that was never given one
DefaultTicksPerCapture == 1

Range(s) == {s[i] : i \in 1..Len(s)}

Ids(s) == {s[i].id : i \in 1..Len(s)}

VARIABLES
    _initial_reset,     \* self._initial_reset
    _reset_ptr,         \* self._reset_ptr[0], the ResetFlag cell in shared memory
    _pre_start_steps,   \* self._pre_start_steps
    agents,             \* self.agents: the registered names, in insertion order
    num_agents,         \* self.num_agents, set once by the constructor
    _agent,             \* self._agent: the primary agent, or None
    ticks_per_capture,  \* each agent's stored capture rate
    action,             \* each agent's action buffer (shared memory)
    queue,              \* the CommandCenter's queue of not-yet-sent commands
    cmdBuffer,          \* the command buffer in shared memory, as last flushed
    sem1,               \* semaphore the engine waits on (controller release)
    sem2,               \* semaphore the controller waits on (engine signal)
    engine,             \* "waiting" for a release | "running" a simulation step
    tickCount,          \* simulation steps the engine has completed
    call,               \* the controller's current or last call and its outcome
    ticksLeft,          \* ticks a running reset() still has to start
    _copy_state,        \* self._copy_state
    _default_state_fn,  \* self._default_state_fn, by name
    _state_dict,        \* the sensor buffers in shared memory: per agent, the tick that last wrote them
    world,              \* the agents that exist in the engine's world
    result,             \* what the latest call returned
    _world_process,     \* self._world_process: the engine process, "running" or "killed"
    unlinks,            \* calls of self._client.unlink() so far
    args,               \* the arguments of the latest call, for the setters
    \* history variables
    turn,               \* who holds the handshake turn
    nextId,             \* sequence number of the next enqueued command
    nextAct,            \* sequence number of the next supplied action
    releases,           \* release() calls so far (= flushes so far)
    failures,           \* handshake failures so far
    sent,               \* every command handed over by a flush, in order
    dropped,            \* ids of the commands discarded by clear()
    observed,           \* ids the engine read from the command buffer, in order
    applied,            \* sequence numbers of the actions the engine applied
    superseded,         \* actions overwritten by a later act with no engine tick between
    freshActs,          \* agents given an action since the engine last started a tick
    engineSaw,          \* what the engine read at its latest tick start
    engineApplied,      \* the action the engine applied for each agent at its latest tick start
    retried,            \* a flush/release was performed after a handshake failure
    calls               \* calls made so far

vars == <<_initial_reset, _reset_ptr, _pre_start_steps, agents, num_agents,
          _agent, ticks_per_capture, action, queue, cmdBuffer, sem1, sem2,
          engine, tickCount, call, ticksLeft, _copy_state, _default_state_fn,
          _state_dict, world, result, _world_process, unlinks, args, turn, nextId, nextAct, releases,
          failures, sent, dropped, observed, applied, superseded, freshActs,
          engineSaw, engineApplied, retried, calls>>

\* the program's own state (no history variables)
envVars == <<_initial_reset, _reset_ptr, _pre_start_steps, agents, num_agents,
             _agent, ticks_per_capture, action, queue, cmdBuffer, sem1, sem2,
             ticksLeft, _copy_state, _default_state_fn, _world_process>>

\* the sensor buffers, the engine's world and the value the caller holds
stateVars == <<_state_dict, world, result>>

histVars == <<turn, nextId, nextAct, releases, failures, sent, dropped,
              observed, applied, superseded, freshActs, engineSaw, engineApplied, retried>>

----------------------------------------------------------------------------
(* CommandCenter, from the specification, section 4.2 *)

\* enqueue(command): append to the ordered buffer
enqueue_command(q, c) == Append(q, c)

\* flush(): the whole buffer, in enqueue order, goes to the engine; the queue is cleared
handle_buffer(q) == [buffer |-> q, queue |-> <<>>]

\* clear(): discard the pending commands without sending them
clear(q) == <<>>

\* a command as the model carries it: its kind, its target and parameter, the
\* sequence number of its enqueue and the number of flushes that preceded it
Command(kind, target, param) ==
    [id |-> nextId, kind |-> kind, target |-> target, param |-> param,
     epoch |-> releases]

\* a flushed command in the history: when it was enqueued and which flush took it
Stamp(q, n) ==
    [i \in 1..Len(q) |-> [id |-> q[i].id, kind |-> q[i].kind, target |-> q[i].target,
                          epoch |-> q[i].epoch, at |-> n]]

----------------------------------------------------------------------------
(* The agent classes, from the specification, section 4.1 *)

has_camera(name) == name \in CameraAgents

\* the marker of the Task sensors in a sensor identifier
TaskMarker == "Task"

\* the sensor identifiers of an agent, in the iteration order of its state
\* dict; an identifier is the sequence of the words it is made of
sensor_ids(name) ==
    IF name = "uav"
    THEN << <<"Distance", "Task">>, <<"Follow", "Task">>, <<"RGB", "Camera">> >>
    ELSE << <<"Location", "Sensor">> >>

\* the buffer of an agent's i-th sensor as the engine wrote it at tick t
\* (t = 0: never written)
sensor_data(i, t) == IF t = 0 THEN <<0, 0>> ELSE <<10 * i + t, (i + t) % 2>>

\* Agent.agent_state_dict: sensor identifier and buffer, in iteration order
agent_state_dict(name, t) ==
    [i \in 1..Len(sensor_ids(name)) |->
        [sensor |-> sensor_ids(name)[i], value |-> sensor_data(i, t)]]

\* Agent.act: the action is written over the agent's action buffer
AgentAct(old, v) == [val |-> v, seq |-> nextAct]

\* Agent.teleport / Agent.set_state: an override command for the agent is enqueued
AgentOverride(q, kind, name) == enqueue_command(q, Command(kind, name, None))

----------------------------------------------------------------------------
(* HolodeckEnvironment *)

\* an _add_agents() that registers a definition whatever its name
_add_agents_again(ags, defs) == ags \o defs

RECURSIVE _add_agents(_, _)
_add_agents(ags, defs) ==
    IF defs = <<>> THEN ags
    ELSE IF defs[1] \in Range(ags)
         THEN _add_agents(ags, Tail(defs))
         ELSE _add_agents(Append(ags, defs[1]), Tail(defs))

\* a queue that puts the newest command first
enqueue_in_front(q, c) == <<c>> \o q

_enqueue_command(q, c) == enqueue_command(q, c)

\* a tick() that does not test the flag
tick_unguarded(flag) == TRUE

\* "if not self._initial_reset: raise ..." of tick(), as the test that lets the call go on
tick_precondition(flag) == flag

\* the same test of step()
step_precondition(flag) == flag

\* a reset() that flips the flag
reset_toggle_flag(old) == ~old

\* reset(): self._initial_reset = True
reset_initial_flag(old) == TRUE

\* a reset() that leaves the queue as it is
reset_keep(q) == q

\* reset(): self._command_center.clear()
reset_clear(q) == clear(q)

\* an act() that keeps the action already pending for the agent
act_keep_pending(acts, agent_name, v) ==
    IF agent_name \in freshActs THEN acts
    ELSE [acts EXCEPT ![agent_name] = AgentAct(acts[agent_name], v)]

\* an act() that writes the action to every agent's buffer
act_every_agent(acts, agent_name, v) == [n \in AgentNames |-> AgentAct(acts[n], v)]

\* act(): self.agents[agent_name].act(action)
act(acts, agent_name, v) == [acts EXCEPT ![agent_name] = AgentAct(acts[agent_name], v)]

\* set_ticks_per_capture(): the two tests that let the call enqueue its command
capture_rate_accepted(ags, agent_name, rate) ==
    /\ rate.int /\ rate.val >= 1
    /\ agent_name \in Range(ags)

\* a reset() that re-applies the capture rate of every agent
reset_every_agent(ags) == ags

\* reset(): the agents whose capture rate is re-applied, in the order of self.agents
reset_capture_agents(ags) == SelectSeq(ags, has_camera)

\* reset(): the calls set_ticks_per_capture(agent, agent.get_ticks_per_capture())
\* for those agents, as the queue they leave; id is the next sequence number
RECURSIVE reset_reapply(_, _, _)
reset_reapply(q, names, id) ==
    IF names = <<>> THEN q
    ELSE IF capture_rate_accepted(agents, names[1],
                                  [int |-> TRUE, val |-> ticks_per_capture[names[1]]])
         THEN reset_reapply(
                  _enqueue_command(q, [id |-> id, kind |-> "RGBCameraRate",
                                       target |-> names[1],
                                       param |-> ticks_per_capture[names[1]],
                                       epoch |-> releases]),
                  Tail(names), id + 1)
         ELSE reset_reapply(q, Tail(names), id)

\* "Task" in sensor
contains_Task(sensor) == \E i \in 1..Len(sensor) : sensor[i] = TaskMarker

\* _get_single_state(): the loop over the agent's sensors, from sensor i on,
\* acc being the reward and terminal found so far
RECURSIVE task_scan(_, _, _)
task_scan(entry, i, acc) ==
    IF i > Len(entry) THEN acc
    ELSE task_scan(entry, i + 1,
                   IF contains_Task(entry[i].sensor)
                   THEN [reward |-> <<entry[i].value[1]>>,
                         terminal |-> <<entry[i].value[2] = 1>>]
                   ELSE acc)

\* a copy that is the object itself
_create_alias(obj) == Reference

\* _create_copy(obj): a structure of its own holding the values obj has now
_create_copy(obj) == [ref |-> FALSE, val |-> obj]

\* _get_single_state(), reading the state dict d for the agent name
_get_single_state(d, name, copy_state) ==
    LET found == task_scan(d[name], 1, [reward |-> NoValue, terminal |-> NoValue]) IN
    [fn |-> "_get_single_state",
     state |-> IF copy_state THEN _create_copy(d[name]) ELSE Reference,
     reward |-> found.reward,
     terminal |-> found.terminal]

\* _get_full_state(), reading the state dict d
_get_full_state(d, copy_state) ==
    [fn |-> "_get_full_state",
     state |-> IF copy_state THEN _create_copy(d) ELSE Reference,
     reward |-> NoValue,
     terminal |-> NoValue]

\* self._state_dict as a reader finds it when the buffers hold the given stamps
state_dict_read(stamps) == [n \in Range(agents) |-> agent_state_dict(n, stamps[n])]

\* what the stamps of the buffers can be read as: while the engine runs a tick
\* it is overwriting them, and a read gets the old or the new value of each
LiveReads ==
    IF engine = "running"
    THEN {f \in [AgentNames -> {_state_dict[n] : n \in AgentNames} \cup {tickCount + 1}] :
             \A n \in AgentNames :
                 \/ f[n] = _state_dict[n]
                 \/ n \in world /\ f[n] = tickCount + 1}
    ELSE {_state_dict}

\* a reset() that picks its return function by the agents registered now
ReturnValue_by_agent_count(op, d) ==
    CASE op = "tick" -> _get_full_state(d, _copy_state)
      [] op = "step" -> IF _agent # None
                        THEN _get_single_state(d, _agent, _copy_state)
                        ELSE _get_full_state(d, _copy_state)
      [] op = "reset" -> IF Len(agents) = 1
                         THEN _get_single_state(d, _agent, _copy_state)
                         ELSE _get_full_state(d, _copy_state)
      [] op = "set_state" -> _get_full_state(d, _copy_state)
      [] op = "teleport" -> NoResult

\* the return statement of each call that ticks, reading the state dict d
ReturnValue(op, d) ==
    CASE op = "tick" -> _get_full_state(d, _copy_state)
      [] op = "step" -> IF _agent # None
                        THEN _get_single_state(d, _agent, _copy_state)
                        ELSE _get_full_state(d, _copy_state)
      [] op = "reset" -> IF _default_state_fn = "_get_single_state"
                         THEN _get_single_state(d, _agent, _copy_state)
                         ELSE _get_full_state(d, _copy_state)
      [] op = "set_state" -> _get_full_state(d, _copy_state)
      [] op = "teleport" -> NoResult

\* the structure a returned state gives access to now
Deref(res) ==
    IF ~res.state.ref THEN res.state.val
    ELSE IF res.fn = "_get_single_state"
         THEN state_dict_read(_state_dict)[_agent]
         ELSE state_dict_read(_state_dict)

Idle == call.status # "blocked"

\* a call begins: the controller is not inside another call
BeginWith(a) ==
    /\ Idle
    /\ calls < MaxCalls
    /\ calls' = calls + 1
    /\ args' = a

Begin == BeginWith(<<>>)

\* a call that fails at once and changes nothing but the record of the call
Raise(op, error) ==
    /\ call' = [op |-> op, status |-> error]
    /\ UNCHANGED <<envVars, engine, tickCount, stateVars, unlinks, histVars>>

\* a tick that flushes but never calls release()
StartTick_without_release(q) ==
    LET hb == handle_buffer(q) IN
    /\ cmdBuffer' = hb.buffer
    /\ queue' = hb.queue
    /\ sent' = sent \o Stamp(q, releases + 1)
    /\ sem1' = sem1
    /\ releases' = releases + 1
    /\ turn' = "engine"
    /\ retried' = (retried \/ failures > 0)

\* handle_buffer(); release(): the part of a tick before the blocking acquire(),
\* flushing queue q
StartTick(q) ==
    LET hb == handle_buffer(q) IN
    /\ cmdBuffer' = hb.buffer
    /\ queue' = hb.queue
    /\ sent' = sent \o Stamp(q, releases + 1)
    /\ sem1' = sem1 + 1
    /\ releases' = releases + 1
    /\ turn' = "engine"
    /\ retried' = (retried \/ failures > 0)

Init ==
    \E defs \in AgentDefinitionLists, p \in PreStartSteps :
        /\ _pre_start_steps = p
        /\ _reset_ptr = FALSE
        /\ agents = _add_agents(<<>>, defs)
        /\ num_agents = Len(agents)
        /\ _agent = IF num_agents > 0 THEN defs[1] ELSE None
        /\ _initial_reset = FALSE
        /\ ticks_per_capture = [n \in AgentNames |-> DefaultTicksPerCapture]
        /\ action = [n \in AgentNames |-> NoAction]
        /\ queue = <<>>
        /\ cmdBuffer = <<>>
        /\ sem1 = 0
        /\ sem2 = 0
        /\ engine = "waiting"
        /\ tickCount = 0
        /\ call = [op |-> "__init__", status |-> "returned"]
        /\ ticksLeft = 0
        /\ _copy_state \in BOOLEAN
        /\ _default_state_fn = IF num_agents = 1 THEN "_get_single_state"
                                                ELSE "_get_full_state"
        /\ _state_dict = [n \in AgentNames |-> 0]
        /\ world = Range(agents)
        /\ result = NoResult
        /\ _world_process = "running"
        /\ unlinks = 0
        /\ args = <<>>
        /\ turn = "controller"
        /\ nextId = 1
        /\ nextAct = 1
        /\ releases = 0
        /\ failures = 0
        /\ sent = <<>>
        /\ dropped = {}
        /\ observed = <<>>
        /\ applied = {}
        /\ superseded = {}
        /\ freshActs = {}
        /\ engineSaw = [flag |-> FALSE, op |-> None]
        /\ engineApplied = [n \in AgentNames |-> NoAction]
        /\ retried = FALSE
        /\ calls = 0

----------------------------------------------------------------------------
(* The controller's calls *)

\* tick()
tick ==
    /\ Begin
    /\ IF ~tick_precondition(_initial_reset)
       THEN Raise("tick", "OrderingError")
       ELSE /\ StartTick(queue)
            /\ call' = [op |-> "tick", status |-> "blocked"]
            /\ ticksLeft' = 0
            /\ UNCHANGED stateVars
            /\ UNCHANGED <<_initial_reset, _reset_ptr, _pre_start_steps, _copy_state, _default_state_fn, _world_process, unlinks, agents,
                           num_agents, _agent, ticks_per_capture, action, sem2,
                           engine, tickCount, nextId, nextAct, failures, dropped,
                           observed, applied, superseded, freshActs, engineSaw, engineApplied>>

\* step(action)
step(v) ==
    /\ Begin
    /\ IF ~step_precondition(_initial_reset)
       THEN Raise("step", "OrderingError")
       ELSE /\ IF _agent # None
               THEN /\ action' = act(action, _agent, v)
                    /\ nextAct' = nextAct + 1
                    /\ superseded' = IF _agent \in freshActs
                                     THEN superseded \cup {action[_agent].seq}
                                     ELSE superseded
                    /\ freshActs' = freshActs \cup {_agent}
               ELSE UNCHANGED <<action, nextAct, superseded, freshActs>>
            /\ StartTick(queue)
            /\ call' = [op |-> "step", status |-> "blocked"]
            /\ ticksLeft' = 0
            /\ UNCHANGED stateVars
            /\ UNCHANGED <<_initial_reset, _reset_ptr, _pre_start_steps, _copy_state, _default_state_fn, _world_process, unlinks, agents,
                           num_agents, _agent, ticks_per_capture, sem2, engine,
                           tickCount, nextId, failures, dropped, observed,
                           applied, engineSaw, engineApplied>>

\* reset(), up to the acquire() of its first tick
reset ==
    /\ Begin
    /\ _initial_reset' = reset_initial_flag(_initial_reset)
    /\ _reset_ptr' = TRUE
    /\ dropped' = dropped \cup Ids(queue)
    /\ UNCHANGED stateVars
    /\ IF tick_precondition(_initial_reset')
       THEN /\ StartTick(reset_clear(queue))
            /\ call' = [op |-> "reset", status |-> "blocked"]
            /\ ticksLeft' = _pre_start_steps
       ELSE /\ queue' = reset_clear(queue)
            /\ call' = [op |-> "reset", status |-> "OrderingError"]
            /\ UNCHANGED <<cmdBuffer, sent, sem1, releases, turn, retried,
                           ticksLeft>>
    /\ UNCHANGED <<_pre_start_steps, _copy_state, _default_state_fn, _world_process, unlinks, agents, num_agents, _agent, freshActs,
                   ticks_per_capture, action, sem2, engine, tickCount, nextId,
                   nextAct, failures, observed, applied, superseded, engineSaw, engineApplied>>

\* teleport(agent_name, ...) and set_state(agent_name, ...): the agent's
\* override, then tick()
override(op, kind, agent_name) ==
    /\ Begin
    /\ IF agent_name \notin Range(agents)
       THEN Raise(op, "KeyError")
       ELSE /\ nextId' = nextId + 1
            /\ UNCHANGED stateVars
            /\ IF ~tick_precondition(_initial_reset)
               THEN /\ queue' = AgentOverride(queue, kind, agent_name)
                    /\ call' = [op |-> op, status |-> "OrderingError"]
                    /\ UNCHANGED <<cmdBuffer, sent, sem1, releases, turn,
                                   retried, ticksLeft>>
               ELSE /\ StartTick(AgentOverride(queue, kind, agent_name))
                    /\ call' = [op |-> op, status |-> "blocked"]
                    /\ ticksLeft' = 0
            /\ UNCHANGED <<_initial_reset, _reset_ptr, _pre_start_steps, _copy_state, _default_state_fn, _world_process, unlinks, agents,
                           num_agents, _agent, ticks_per_capture, action, sem2,
                           engine, tickCount, nextAct, failures, dropped,
                           observed, applied, superseded, freshActs, engineSaw, engineApplied>>

teleport(agent_name) == override("teleport", "Teleport", agent_name)

set_state(agent_name) == override("set_state", "SetState", agent_name)

\* act(agent_name, action)
Act(agent_name, v) ==
    /\ Begin
    /\ IF agent_name \notin Range(agents)
       THEN Raise("act", "KeyError")
       ELSE /\ action' = act(action, agent_name, v)
            /\ nextAct' = nextAct + 1
            /\ superseded' = IF agent_name \in freshActs
                             THEN superseded \cup {action[agent_name].seq}
                             ELSE superseded
            /\ freshActs' = freshActs \cup {agent_name}
            /\ call' = [op |-> "act", status |-> "returned"]
            /\ result' = NoResult
            /\ UNCHANGED <<_state_dict, world>>
            /\ UNCHANGED <<_initial_reset, _reset_ptr, _pre_start_steps, _copy_state, _default_state_fn, _world_process, unlinks, agents,
                           num_agents, _agent, ticks_per_capture, queue,
                           cmdBuffer, sem1, sem2, engine, tickCount, ticksLeft,
                           turn, nextId, releases, failures, sent, dropped,
                           observed, applied, engineSaw, engineApplied, retried>>

\* the frame of a call that only enqueues
EnqueueFrame ==
    /\ result' = NoResult
    /\ UNCHANGED <<_state_dict, world>>
    /\ UNCHANGED <<_initial_reset, _reset_ptr, _pre_start_steps, _copy_state, _default_state_fn, _world_process, unlinks, num_agents,
                action, cmdBuffer, sem1, sem2, engine, tickCount, ticksLeft,
                turn, nextAct, releases, failures, sent, dropped, observed,
                applied, superseded, freshActs, engineSaw, engineApplied, retried>>

\* a spawn_agent() that enqueues no command for a name already registered
spawn_agent_once(name) ==
    /\ Begin
    /\ agents' = _add_agents(agents, <<name>>)
    /\ IF name \in Range(agents)
       THEN UNCHANGED <<queue, nextId>>
       ELSE /\ queue' = _enqueue_command(queue, Command("SpawnAgent", name, None))
            /\ nextId' = nextId + 1
    /\ _agent' = IF _agent = None THEN name ELSE _agent
    /\ call' = [op |-> "spawn_agent", status |-> "returned"]
    /\ UNCHANGED ticks_per_capture
    /\ EnqueueFrame

\* spawn_agent(agent_definition, location)
spawn_agent(name) ==
    /\ Begin
    /\ agents' = _add_agents(agents, <<name>>)
    /\ queue' = _enqueue_command(queue, Command("SpawnAgent", name, None))
    /\ nextId' = nextId + 1
    /\ _agent' = IF _agent = None THEN name ELSE _agent
    /\ call' = [op |-> "spawn_agent", status |-> "returned"]
    /\ UNCHANGED ticks_per_capture
    /\ EnqueueFrame

\* a setter that goes through: it enqueues the command c and returns
Enqueue(op, c) ==
    /\ queue' = _enqueue_command(queue, c)
    /\ nextId' = nextId + 1
    /\ call' = [op |-> op, status |-> "returned"]
    /\ UNCHANGED <<agents, _agent, ticks_per_capture>>
    /\ EnqueueFrame

\* a setter that prints a message and returns: nothing done
Skip(op) ==
    /\ call' = [op |-> op, status |-> "returned"]
    /\ UNCHANGED <<agents, _agent, ticks_per_capture, queue, nextId>>
    /\ EnqueueFrame

\* set_ticks_per_capture(agent_name, ticks_per_capture)
set_ticks_per_capture(agent_name, rate) ==
    /\ BeginWith(<<agent_name, rate>>)
    /\ call' = [op |-> "set_ticks_per_capture", status |-> "returned"]
    /\ IF capture_rate_accepted(agents, agent_name, rate)
       THEN /\ ticks_per_capture' = [ticks_per_capture EXCEPT ![agent_name] = rate.val]
            /\ queue' = _enqueue_command(queue, Command("RGBCameraRate", agent_name, rate.val))
            /\ nextId' = nextId + 1
       ELSE UNCHANGED <<ticks_per_capture, queue, nextId>>
    /\ UNCHANGED <<agents, _agent>>
    /\ EnqueueFrame

\* DebugDrawCommand(draw_type, ...)
DebugDrawCommand(draw_type) == Command("DebugDraw", None, <<draw_type>>)

draw_line == Begin /\ Enqueue("draw_line", DebugDrawCommand(0))

draw_arrow == Begin /\ Enqueue("draw_arrow", DebugDrawCommand(1))

draw_box == Begin /\ Enqueue("draw_box", DebugDrawCommand(2))

draw_point == Begin /\ Enqueue("draw_point", DebugDrawCommand(3))

\* CustomCommand(name, num_params, string_params)
CustomCommand(name, num_params, string_params) ==
    Command("CustomCommand", name, [num |-> num_params, str |-> string_params])

\* send_world_command(name, num_params, string_params)
send_world_command(name, num_params, string_params) ==
    /\ BeginWith(<<name, num_params, string_params>>)
    /\ Enqueue("send_world_command", CustomCommand(name, num_params, string_params))

\* a set_fog_density() that accepts every density
fog_density_never_rejected(density) == FALSE

\* set_fog_density(): "if density < 0 or density > 1"
fog_density_rejected(density) == density < 0 \/ density > 1

\* set_fog_density(density)
set_fog_density(density) ==
    /\ BeginWith(<<density>>)
    /\ IF fog_density_rejected(density)
       THEN Raise("set_fog_density", "HolodeckException")
       ELSE Enqueue("set_fog_density", CustomCommand("SetFogDensity", <<density>>, <<>>))

\* a set_day_time() that passes the hour on as it is
hour_unreduced(hour) == hour

\* set_day_time(): "hour % 24", Python's modulo, whose result has the sign of
\* the divisor
hour_of_day(hour) == hour % 24

\* set_day_time(hour)
set_day_time(hour) ==
    /\ BeginWith(<<hour>>)
    /\ Enqueue("set_day_time", CustomCommand("SetHour", <<hour_of_day(hour)>>, <<>>))

\* start_day_cycle(): "if day_length <= 0"
day_length_rejected(day_length) == day_length <= 0

\* start_day_cycle(day_length)
start_day_cycle(day_length) ==
    /\ BeginWith(<<day_length>>)
    /\ IF day_length_rejected(day_length)
       THEN Raise("start_day_cycle", "HolodeckException")
       ELSE Enqueue("start_day_cycle", CustomCommand("SetDayCycle", <<1, day_length>>, <<>>))

\* stop_day_cycle()
stop_day_cycle ==
    /\ Begin
    /\ Enqueue("stop_day_cycle", CustomCommand("SetDayCycle", <<0, -1>>, <<>>))

\* str.lower() on the weather types of the model
lower(weather_type) ==
    CASE weather_type = "Rain" -> "rain"
      [] weather_type = "Snow" -> "snow"
      [] OTHER -> weather_type

\* set_weather(): "if not weather_type.lower() in ["rain", "cloudy"]"
weather_rejected(weather_type) == lower(weather_type) \notin {"rain", "cloudy"}

\* set_weather(weather_type)
set_weather(weather_type) ==
    /\ BeginWith(<<weather_type>>)
    /\ IF weather_rejected(weather_type)
       THEN Raise("set_weather", "HolodeckException")
       ELSE Enqueue("set_weather", CustomCommand("SetWeather", <<>>, <<weather_type>>))

\* teleport_camera(location, rotation)
teleport_camera == Begin /\ Enqueue("teleport_camera", Command("TeleportCamera", None, None))

\* should_render_viewport(render_viewport)
should_render_viewport ==
    Begin /\ Enqueue("should_render_viewport", Command("RenderViewport", None, None))

\* set_render_quality(render_quality)
set_render_quality ==
    Begin /\ Enqueue("set_render_quality", Command("RenderQuality", None, None))

\* Agent.set_control_scheme: a command that sets the agent's control scheme
AgentControlScheme(name) == Command("SetControlScheme", name, None)

\* set_control_scheme(agent_name, control_scheme)
set_control_scheme(agent_name) ==
    /\ BeginWith(<<agent_name>>)
    /\ IF agent_name \notin Range(agents)
       THEN Skip("set_control_scheme")
       ELSE Enqueue("set_control_scheme", AgentControlScheme(agent_name))

\* hasattr(self, "_sensor_map"): no line of the class assigns the attribute
has_sensor_map == FALSE

\* set_sensor_enabled(agent_name, sensor_name, enabled)
set_sensor_enabled(agent_name) ==
    /\ BeginWith(<<agent_name>>)
    /\ IF ~has_sensor_map
       THEN Raise("set_sensor_enabled", "AttributeError")
       ELSE IF agent_name \notin Range(agents)
            THEN Skip("set_sensor_enabled")
            ELSE Enqueue("set_sensor_enabled", Command("SetSensorEnabled", agent_name, None))

\* __on_exit__(): the exit handler registered with atexit, and __exit__().
\* kill() ends the engine process if it still runs; unlink() is called on the
\* client each time.
__on_exit__ ==
    /\ Begin
    /\ _world_process' = "killed"
    /\ engine' = "dead"
    /\ unlinks' = unlinks + 1
    /\ call' = [op |-> "__on_exit__", status |-> "returned"]
    /\ result' = NoResult
    /\ UNCHANGED <<_initial_reset, _reset_ptr, _pre_start_steps, _copy_state,
                   _default_state_fn, agents, num_agents, _agent,
                   ticks_per_capture, action, queue, cmdBuffer, sem1, sem2,
                   tickCount, ticksLeft, _state_dict, world, histVars>>

\* acquire() returns: the engine has signalled.  Inside reset() the next tick()
\* of the loop follows at once; after the last one reset() re-applies the
\* capture rates and returns.
AcquireReturn ==
    /\ call.status = "blocked"
    /\ sem2 > 0
    /\ sem2' = sem2 - 1
    /\ UNCHANGED <<_state_dict, world>>
    /\ IF ticksLeft > 0
       THEN /\ StartTick(queue)
            /\ ticksLeft' = ticksLeft - 1
            /\ UNCHANGED <<call, nextId, result>>
       ELSE /\ call' = [call EXCEPT !.status = "returned"]
            /\ turn' = "controller"
            /\ \E stamps \in LiveReads :
                   result' = ReturnValue(call.op, state_dict_read(stamps))
            /\ IF call.op = "reset"
               THEN LET names == reset_capture_agents(agents) IN
                    /\ queue' = reset_reapply(queue, names, nextId)
                    /\ nextId' = nextId + (Len(queue') - Len(queue))
               ELSE UNCHANGED <<queue, nextId>>
            /\ UNCHANGED <<cmdBuffer, sent, sem1, releases, retried, ticksLeft>>
    /\ UNCHANGED <<_initial_reset, _reset_ptr, _pre_start_steps, _copy_state, _default_state_fn, _world_process, unlinks, agents,
                   num_agents, _agent, ticks_per_capture, action, engine,
                   tickCount, nextAct, failures, dropped, observed, applied,
                   superseded, freshActs, engineSaw, engineApplied, calls, args>>

\* acquire() times out: the call fails with the handshake error
AcquireTimeout ==
    /\ call.status = "blocked"
    /\ sem2 = 0
    /\ failures < MaxFail
    /\ failures' = failures + 1
    /\ call' = [call EXCEPT !.status = "HandshakeError"]
    /\ ticksLeft' = 0
    /\ UNCHANGED stateVars
    /\ UNCHANGED <<_initial_reset, _reset_ptr, _pre_start_steps, _copy_state, _default_state_fn, _world_process, unlinks, agents,
                   num_agents, _agent, ticks_per_capture, action, queue,
                   cmdBuffer, sem1, sem2, engine, tickCount, turn, nextId,
                   nextAct, releases, sent, dropped, observed, applied,
                   superseded, freshActs, engineSaw, engineApplied, retried, calls, args>>

----------------------------------------------------------------------------
(* The engine process, from the specification, section 5 *)

\* the engine takes the controller's release: it reads the ResetFlag, the
\* command buffer and the action buffers and starts a simulation step
EngineStart ==
    /\ engine = "waiting"
    /\ sem1 > 0
    /\ sem1' = sem1 - 1
    /\ engine' = "running"
    /\ observed' = observed \o [i \in 1..Len(cmdBuffer) |-> cmdBuffer[i].id]
    /\ applied' = applied \cup {action[n].seq : n \in {m \in AgentNames : action[m].seq > 0}}
    /\ engineSaw' = [flag |-> _reset_ptr,
                     op |-> IF call.status = "blocked" THEN call.op ELSE None]
    /\ freshActs' = {}
    /\ engineApplied' = action
    /\ world' = world \cup {cmdBuffer[i].target :
                                i \in {j \in 1..Len(cmdBuffer) : cmdBuffer[j].kind = "SpawnAgent"}}
    /\ UNCHANGED <<_state_dict, result>>
    /\ UNCHANGED <<_initial_reset, _reset_ptr, _pre_start_steps, _copy_state, _default_state_fn, _world_process, unlinks, agents,
                   num_agents, _agent, ticks_per_capture, action, queue,
                   cmdBuffer, sem2, tickCount, call, ticksLeft, turn, nextId,
                   nextAct, releases, failures, sent, dropped, superseded,
                   retried, calls, args>>

\* the engine has written the new sensor snapshot and signals the controller
EngineFinish ==
    /\ engine = "running"
    /\ engine' = "waiting"
    /\ tickCount' = tickCount + 1
    /\ _state_dict' = [n \in AgentNames |-> IF n \in world THEN tickCount' ELSE _state_dict[n]]
    /\ sem2' = sem2 + 1
    /\ UNCHANGED <<world, result>>
    /\ UNCHANGED <<_initial_reset, _reset_ptr, _pre_start_steps, _copy_state, _default_state_fn, _world_process, unlinks, agents,
                   num_agents, _agent, ticks_per_capture, action, queue,
                   cmdBuffer, sem1, call, ticksLeft, histVars, calls, args>>

----------------------------------------------------------------------------

Next ==
    \/ tick
    \/ \E v \in ActionValues : step(v)
    \/ reset
    \/ \E n \in AgentNames : teleport(n)
    \/ \E n \in AgentNames : set_state(n)
    \/ \E n \in AgentNames, v \in ActionValues : Act(n, v)
    \/ \E n \in AgentNames : spawn_agent(n)
    \/ \E n \in AgentNames, r \in CaptureRates : set_ticks_per_capture(n, r)
    \/ send_world_command("SetFogDensity", <<1>>, <<>>)
    \/ __on_exit__
    \/ AcquireReturn
    \/ AcquireTimeout
    \/ EngineStart
    \/ EngineFinish

Spec == Init /\ [][Next]_vars

\* the setters, on an environment that is otherwise only reset and ticked
SetterInit == Init /\ _copy_state /\ _pre_start_steps = 0

NextSetters ==
    \/ \E n \in AgentNames, r \in CaptureRates : set_ticks_per_capture(n, r)
    \/ \E n \in AgentNames : set_sensor_enabled(n)
    \/ \E n \in AgentNames : set_control_scheme(n)
    \/ draw_line
    \/ draw_arrow
    \/ draw_box
    \/ draw_point
    \/ \E d \in FogDensities : set_fog_density(d)
    \/ \E h \in Hours : set_day_time(h)
    \/ \E n \in DayLengths : start_day_cycle(n)
    \/ stop_day_cycle
    \/ \E t \in WeatherTypes : set_weather(t)
    \/ teleport_camera
    \/ should_render_viewport
    \/ set_render_quality
    \/ send_world_command("SetFogDensity", <<1>>, <<>>)
    \/ reset
    \/ tick
    \/ AcquireReturn
    \/ AcquireTimeout
    \/ EngineStart
    \/ EngineFinish

SetterSpec == SetterInit /\ [][NextSetters]_vars

\* the engine process dies or hangs: from then on it answers no release
EngineCrash ==
    /\ engine \in {"waiting", "running"}
    /\ engine' = "dead"
    /\ UNCHANGED <<envVars, stateVars, histVars, tickCount, call, unlinks,
                   args, calls>>

\* the calls that tick, against an engine that may be slow or die
LiveInit == Init /\ _copy_state

NextLive ==
    \/ tick
    \/ \E v \in ActionValues : step(v)
    \/ reset
    \/ AcquireReturn
    \/ AcquireTimeout
    \/ EngineStart
    \/ EngineFinish
    \/ EngineCrash

\* acquire() is a bounded wait: a blocked call gets the signal that is there
\* or gives up; an engine that is alive goes on with the step it owes
LiveSpec ==
    /\ LiveInit
    /\ [][NextLive]_vars
    /\ WF_vars(AcquireReturn)
    /\ WF_vars(AcquireTimeout)
    /\ WF_vars(EngineStart)
    /\ WF_vars(EngineFinish)

----------------------------------------------------------------------------
(* Properties *)

Increasing(s) == \A i, j \in 1..Len(s) : i < j => s[i].id < s[j].id

C2_NeverBothInWritePhase == ~(engine = "running" /\ turn = "controller")

\* C3: a tick() or step() before the first reset() fails with the ordering
\* error and changes nothing: queue, actions, ResetFlag, handshake and the
\* engine's tick count stay as they were.
C3_EarlyTickFailsUnchanged ==
    [][(~_initial_reset /\ call' # call /\ call'.op \in {"tick", "step"})
         => /\ call'.status = "OrderingError"
            /\ UNCHANGED <<envVars, engine, tickCount, turn, releases>>]_vars

\* tick() or step() was refused before any reset() while a command was pending
C3_Witness ==
    /\ ~_initial_reset
    /\ call.op \in {"tick", "step"}
    /\ call.status = "OrderingError"
    /\ queue # <<>>

\* C4: after a handshake failure no later call flushes or releases again.
C4_NoRetryAfterFailure == ~retried

\* C5: the ResetFlag is false until the first reset(), true when the engine
\* runs a tick of reset(), and false when it runs any other tick.
C5_ResetFlagOnlyDuringReset ==
    /\ ~_initial_reset => ~_reset_ptr
    /\ engineSaw.op = "reset" => engineSaw.flag
    /\ engineSaw.op \in {"tick", "step", "teleport", "set_state"} => ~engineSaw.flag

ResetReturned == call.op = "reset" /\ call.status = "returned"

\* C6 as stated: when reset() returns the Command Queue is empty.
C6_QueueEmptyAfterReset == ResetReturned => queue = <<>>

\* C6, amended: when reset() returns the Command Queue holds exactly one
\* capture-rate command for each registered agent that has a camera, in
\* registration order and carrying the agent's stored rate, and nothing else:
\* no command that was pending before the reset(); it is empty exactly when no
\* registered agent has a camera.
C6_QueueAfterResetIsCaptureRates ==
    ResetReturned =>
        LET cams == SelectSeq(agents, LAMBDA n : n \in CameraAgents) IN
        /\ Len(queue) = Len(cams)
        /\ \A i \in 1..Len(queue) :
               /\ queue[i].kind = "RGBCameraRate"
               /\ queue[i].target = cams[i]
               /\ queue[i].param = ticks_per_capture[cams[i]]
               /\ queue[i].epoch = releases
        /\ (queue = <<>>) <=> (Range(agents) \cap CameraAgents = {})

\* reset() returned with a camera agent and an agent without camera registered,
\* the camera agent's rate having been set by the caller before
C6_Witness ==
    /\ ResetReturned
    /\ queue # <<>>
    /\ Range(agents) \ CameraAgents # {}
    /\ \E n \in CameraAgents : ticks_per_capture[n] # DefaultTicksPerCapture

\* C7: a command pending when reset() is called is never sent: no flush hands
\* it over, the engine never reads it, and it is not pending afterwards.
C7_DroppedNeverSent ==
    \A id \in dropped :
        /\ id \notin Ids(sent)
        /\ id \notin Range(observed)
        /\ id \notin Ids(cmdBuffer)
        /\ id \notin Ids(queue)

\* a command was dropped by a reset() and a later tick() has completed
C7_Witness ==
    /\ dropped # {}
    /\ call.op = "tick"
    /\ call.status = "returned"

\* C8: while no reset() has been called, act, teleport and set_state record no
\* action and enqueue no command.
C8_NothingAcceptedBeforeReset ==
    ~_initial_reset =>
        /\ \A n \in AgentNames : action[n] = NoAction
        /\ \A i \in 1..Len(queue) : queue[i].kind \notin {"Teleport", "SetState"}

\* C9: once reset() has been called the environment never becomes
\* Uninitialized again, and every reset() is accepted and leaves it Ready.
C9_LifecycleMonotone ==
    [][/\ _initial_reset => _initial_reset'
       /\ (call' # call /\ call'.op = "reset")
            => (_initial_reset' /\ call'.status # "OrderingError")]_vars

\* a reset() called in the Ready state has returned
C9_Witness ==
    /\ ResetReturned
    /\ _initial_reset
    /\ releases > _pre_start_steps + 1

\* C10: an action overwritten by another act for the same agent, with no
\* engine tick between the two acts, is never applied by the engine: the
\* engine applies the later action only.
C10_LastWriteWins == applied \cap superseded = {}

\* act(agent, a), act(agent, b), then a tick in which the engine applied b
C10_Witness ==
    \E n \in AgentNames :
        /\ action[n].seq \in applied
        /\ action[n].seq - 1 \in superseded

\* C11: an action supplied for an agent stays that agent's action: at every
\* tick the engine starts (whichever call released it: tick, step on another
\* agent, teleport, set_state or reset) it applies the action last supplied
\* for the agent by act or step; no other call changes an action buffer.
C11_ActionPersists ==
    \A n \in AgentNames : n \notin freshActs => engineApplied[n] = action[n]

\* an action supplied with act for an agent that is not the primary one was
\* applied again in the tick of a later step() on the primary agent
C11_Witness ==
    \E n \in AgentNames :
        /\ n # _agent
        /\ action[n].val # None
        /\ engineApplied[n] = action[n]
        /\ engineSaw.op = "step"
        /\ call = [op |-> "step", status |-> "returned"]

\* C12: when teleport or set_state returns in the Ready state, the override it
\* enqueued has been read by the engine, the one tick the call released has
\* completed, and the call returns a state that shows the buffers as that
\* tick wrote them.
C12_OverrideVisibleInReturnedState ==
    (call.op \in {"teleport", "set_state"} /\ call.status = "returned") =>
        /\ nextId - 1 \in Range(observed)
        /\ tickCount = releases
        /\ result.fn # None
        /\ Deref(result) = state_dict_read([n \in AgentNames |->
                                IF n \in world THEN tickCount ELSE 0])

\* the agents the constructor registered
ConstructorAgents == Range(SubSeq(agents, 1, num_agents))

\* the returned state res shows buffers of agent n that the engine has written
Reflects(res, n) ==
    CASE res.fn = "_get_full_state" ->
             n \in DOMAIN Deref(res) /\ Deref(res)[n] # agent_state_dict(n, 0)
      [] res.fn = "_get_single_state" ->
             n = _agent /\ Deref(res) # agent_state_dict(n, 0)
      [] OTHER -> FALSE

\* C13: a spawned agent is registered locally as soon as spawn_agent has
\* enqueued its command; the engine knows only the constructor's agents and
\* those whose spawn command a flush has handed over and it has read; and no
\* returned state shows engine-written buffers of an agent before the engine
\* has completed a tick in which it knew the agent.
C13_SpawnLocalNowEngineNextTick ==
    /\ \A i \in 1..Len(queue) :
           queue[i].kind = "SpawnAgent" => queue[i].target \in Range(agents)
    /\ \A n \in world :
           \/ n \in ConstructorAgents
           \/ \E i \in 1..Len(sent) : /\ sent[i].kind = "SpawnAgent"
                                      /\ sent[i].target = n
                                      /\ sent[i].id \in Range(observed)
    /\ \A n \in AgentNames : _state_dict[n] > 0 => n \in world
    /\ \A n \in AgentNames : Reflects(result, n) => _state_dict[n] > 0

Unique(s) == \A i, j \in 1..Len(s) : s[i] = s[j] => i = j

\* C14: the registered names are unique, and a spawn_agent with a name that is
\* already registered leaves the registry and the agent that holds the name
\* (its place, its action buffer, its stored capture rate and its state-dict
\* entry) exactly as they were.
C14_NamesUniqueNoOverwrite ==
    [][/\ Unique(agents) /\ Unique(agents')
       /\ SubSeq(agents', 1, Len(agents)) = agents
       /\ (/\ calls' # calls
           /\ call'.op = "spawn_agent"
           /\ queue'[Len(queue')].target \in Range(agents))
            => UNCHANGED <<agents, _agent, action, ticks_per_capture, _state_dict>>]_vars

\* spawn_agent has returned for a name that was registered before the call
C14_Witness ==
    /\ call = [op |-> "spawn_agent", status |-> "returned"]
    /\ Cardinality({i \in 1..Len(queue) : queue[i].kind = "SpawnAgent"}) + num_agents
           > Len(agents)

\* the live buffers, in the shape of the returned state res
Live(res) ==
    IF res.fn = "_get_single_state" THEN state_dict_read(_state_dict)[_agent]
    ELSE state_dict_read(_state_dict)

\* the agents whose buffers res gives access to, each with what res shows of it
Shown(res) ==
    IF res.fn = "_get_single_state" THEN {<<_agent, Deref(res)>>}
    ELSE {<<n, Deref(res)[n]>> : n \in DOMAIN Deref(res)}

\* C15: while the caller holds a state returned by tick(), step(), reset() or
\* set_state(), a tick the engine completes changes nothing in it in copy
\* mode; in reference mode it then shows, for every agent in the world, the
\* values that tick wrote.
C15_CopyIsolatedReferenceAliased ==
    [][(result' = result /\ result.fn # None /\ tickCount' # tickCount) =>
          IF _copy_state
          THEN Deref(result)' = Deref(result)
          ELSE \A p \in Shown(result)' :
                   p[1] \in world => p[2] = agent_state_dict(p[1], tickCount')]_vars

\* copy mode: the engine has overwritten the buffers since the state the
\* caller holds was returned, and the held state differs from them
C15_Witness ==
    /\ _copy_state
    /\ result.fn # None
    /\ Deref(result) # Live(result)

\* C16: however often teardown runs, and also after a handshake failure, the
\* handshake primitives and the shared memory are unlinked at most once.
C16_UnlinkAtMostOnce == unlinks <= 1

\* the places of the Task sensors in an agent's state dict
TaskSensors(entry) ==
    {i \in 1..Len(entry) : \E k \in 1..Len(entry[i].sensor) : entry[i].sensor[k] = "Task"}

Last(S) == CHOOSE i \in S : \A j \in S : j <= i

\* the reward and terminal the specification defines for a state dict entry
SingleResultOf(entry, res) ==
    IF TaskSensors(entry) = {}
    THEN res.reward = NoValue /\ res.terminal = NoValue
    ELSE LET last == entry[Last(TaskSensors(entry))] IN
         /\ res.reward = <<last.value[1]>>
         /\ res.terminal = <<last.value[2] = 1>>

\* C17: when step() or reset() has returned the single-agent result, its
\* reward and terminal are None if the primary agent has no Task sensor and
\* otherwise element 0 and (element 1 == 1) of its last Task sensor, read from
\* the buffers as the latest tick the engine completed has left them.
C17_SingleResultFromCompletedTick ==
    (result.fn = "_get_single_state" /\ call.status = "returned") =>
        SingleResultOf(agent_state_dict(_agent, _state_dict[_agent]), result)

\* the command-issuing setters
SetterOps ==
    {"set_ticks_per_capture", "set_sensor_enabled", "set_control_scheme",
     "draw_line", "draw_arrow", "draw_box", "draw_point", "set_fog_density",
     "set_day_time", "start_day_cycle", "stop_day_cycle", "set_weather",
     "teleport_camera", "should_render_viewport", "set_render_quality",
     "send_world_command"}

\* the arguments a of the setter op are valid
ValidArgs(op, a) ==
    CASE op = "set_ticks_per_capture" ->
             a[2].int /\ a[2].val >= 1 /\ a[1] \in Range(agents)
      [] op \in {"set_sensor_enabled", "set_control_scheme"} -> a[1] \in Range(agents)
      [] op = "set_fog_density" -> 0 <= a[1] /\ a[1] <= 1
      [] op = "start_day_cycle" -> a[1] > 0
      [] op = "set_weather" -> a[1] \in {"Rain", "rain", "Cloudy", "cloudy"}
      [] OTHER -> TRUE

\* the step appends exactly one command to the Command Queue
AppendsOne ==
    /\ Len(queue') = Len(queue) + 1
    /\ SubSeq(queue', 1, Len(queue)) = queue
    /\ queue'[Len(queue')].id = nextId

\* the step performs no flush and no handshake
NoFlushNoHandshake == UNCHANGED <<cmdBuffer, sent, releases, sem1, sem2, turn>>

\* C18: every command-issuing setter called with valid arguments returns
\* normally, appends exactly one command to the Command Queue, and performs
\* no flush and no handshake.
C18_ValidSetterEnqueuesOne ==
    [][(calls' # calls /\ call'.op \in SetterOps /\ ValidArgs(call'.op, args')) =>
          /\ call'.status = "returned"
          /\ AppendsOne
          /\ NoFlushNoHandshake]_vars

\* C19: set_fog_density(d) with d < 0 or d > 1, start_day_cycle(n) with
\* n <= 0 and set_weather(t) with t outside the allowed set raise the
\* validation error and leave the Command Queue as it was;
\* set_fog_density(d) with 0 <= d <= 1 appends exactly one command, whose
\* numeric parameter list is <<d>>.
C19_HardValidation ==
    [][(calls' # calls
          /\ call'.op \in {"set_fog_density", "start_day_cycle", "set_weather"}) =>
          IF ~ValidArgs(call'.op, args')
          THEN /\ call'.status = "HolodeckException"
               /\ UNCHANGED <<queue, nextId>>
               /\ NoFlushNoHandshake
          ELSE call'.op = "set_fog_density" =>
                   /\ call'.status = "returned"
                   /\ AppendsOne
                   /\ queue'[Len(queue')].kind = "CustomCommand"
                   /\ queue'[Len(queue')].target = "SetFogDensity"
                   /\ queue'[Len(queue')].param.num = <<args'[1]>>]_vars

\* set_fog_density was refused with a density out of range while the command
\* of an earlier set_fog_density with a valid density is pending
C19_Witness ==
    /\ call = [op |-> "set_fog_density", status |-> "HolodeckException"]
    /\ ~(0 <= args[1] /\ args[1] <= 1)
    /\ \E i \in 1..Len(queue) : /\ queue[i].kind = "CustomCommand"
                                /\ queue[i].target = "SetFogDensity"
                                /\ queue[i].id = nextId - 1

\* C20: set_ticks_per_capture with a rate that is no integer or below 1 or
\* with an unknown agent, and set_control_scheme and set_sensor_enabled with
\* an unknown agent, return normally, enqueue nothing and leave every agent's
\* stored settings as they were.
C20_SoftErrorsSkip ==
    [][(calls' # calls
          /\ call'.op \in {"set_ticks_per_capture", "set_control_scheme",
                           "set_sensor_enabled"}
          /\ ~ValidArgs(call'.op, args')) =>
          /\ call'.status = "returned"
          /\ UNCHANGED <<queue, nextId, ticks_per_capture, agents, action>>
          /\ NoFlushNoHandshake]_vars

----------------------------------------------------------------------------
\* C21: for every integer hour, negative and 24 or more included,
\* set_day_time(hour) appends exactly one SetHour command to the queue, whose
\* only numeric parameter is the hour of the day in 0..23 that differs from
\* hour by a multiple of 24; set_day_time(30) enqueues 6.
C21_SetHourIsHourMod24 ==
    [][(call'.op = "set_day_time" /\ calls' = calls + 1) =>
          /\ call'.status = "returned"
          /\ Len(queue') = Len(queue) + 1
          /\ SubSeq(queue', 1, Len(queue)) = queue
          /\ LET c == queue'[Len(queue')]
                 hour == args'[1] IN
             /\ c.kind = "CustomCommand"
             /\ c.target = "SetHour"
             /\ c.param.str = <<>>
             /\ Len(c.param.num) = 1
             /\ c.param.num[1] \in 0..23
             /\ \E k \in -2..2 : hour = c.param.num[1] + 24 * k
             /\ (hour = 30 => c.param.num[1] = 6)
             /\ (hour = -1 => c.param.num[1] = 23)]_vars

\* set_day_time(30) has just returned and the newest command carries 6
C21_Witness ==
    /\ call = [op |-> "set_day_time", status |-> "returned"]
    /\ args = <<30>>
    /\ Len(queue) > 0
    /\ queue[Len(queue)].target = "SetHour"
    /\ queue[Len(queue)].param.num = <<6>>

----------------------------------------------------------------------------
\* the controller is inside a call that ticks, waiting in acquire()
Blocked == call.status = "blocked"

\* the engine still has a release to answer or a signal waiting to be taken
EngineOwes ==
    \/ engine = "running"
    \/ engine = "waiting" /\ sem1 > 0
    \/ sem2 > 0

\* a fair engine: it signals after every release before the acquire gives up,
\* so no call has failed while the engine still owed its answer
FairEngine == [](call.status = "HandshakeError" => ~EngineOwes)

----------------------------------------------------------------------------
\* the return function the constructor chose, from the agents it registered
ShapeAtConstruction ==
    IF Cardinality(ConstructorAgents) = 1 THEN "_get_single_state"
                                          ELSE "_get_full_state"

\* the first agent registered, by the constructor or else by spawn_agent
FirstAgent == IF agents = <<>> THEN None ELSE agents[1]

----------------------------------------------------------------------------
\* a step that is one call of spawn_agent
SpawnCall == call'.op = "spawn_agent" /\ calls' = calls + 1

\* the spawn commands in the sequence q
SpawnCommands(q) == {q[i] : i \in {j \in 1..Len(q) : q[j].kind = "SpawnAgent"}}

\* spawn_agent appends exactly one spawn command, for a new name and for a
\* registered one, and a registered name leaves the agents map as it was
SpawnAppendsOne ==
    SpawnCall =>
        /\ call'.status = "returned"
        /\ Len(queue') = Len(queue) + 1
        /\ SubSeq(queue', 1, Len(queue)) = queue
        /\ LET c == queue'[Len(queue')] IN
           /\ c.kind = "SpawnAgent"
           /\ c.target \in AgentNames
           /\ IF c.target \in Range(agents)
              THEN agents' = agents
              ELSE agents' = Append(agents, c.target)

\* a step that flushes: handle_buffer() and release()
Flush == releases' = releases + 1

\* C24 as stated: every spawn_agent call appends exactly one spawn command,
\* also for a name already registered (the agents map is then unchanged), and
\* the next flush hands every pending spawn command to the engine.
C24_SpawnReachesNextFlush ==
    [][/\ SpawnAppendsOne
       /\ Flush => SpawnCommands(queue) \subseteq SpawnCommands(cmdBuffer')]_vars

\* C24, amended: every spawn_agent call appends exactly one spawn command,
\* also for a name already registered (the agents map is then unchanged); the
\* next flush hands every pending spawn command to the engine when it is the
\* flush of a tick(), step(), teleport() or set_state(), and when it is the
\* first flush of a reset() the pending spawn commands are discarded and the
\* engine is handed none.
C24_SpawnEnqueuesOneAlsoDuplicate ==
    [][/\ SpawnAppendsOne
       /\ (Flush /\ ~(Idle /\ call'.op = "reset")) =>
              SpawnCommands(queue) \subseteq SpawnCommands(cmdBuffer')
       /\ (Flush /\ Idle /\ call'.op = "reset") =>
              /\ SpawnCommands(cmdBuffer') = {}
              /\ Ids(queue) \subseteq dropped']_vars

\* the engine has been handed a spawn command for a name the constructor had
\* registered, and the agents map still holds the constructor's agents only
C24_Witness ==
    /\ Len(agents) = num_agents
    /\ \E i \in 1..Len(cmdBuffer) :
           /\ cmdBuffer[i].kind = "SpawnAgent"
           /\ cmdBuffer[i].target \in ConstructorAgents

====
